---- MODULE Spec2Model ----
(***************************************************************************)
(* shared-mem-random: a process that fills a named shared memory with      *)
(* random values on a fixed interval, optionally guarded by a named        *)
(* semaphore.  The model follows src/unnamed/part_000 (timer/semaphore     *)
(* variant): start-up, the main loop, random_data<T>, the signal handler,  *)
(* the interval timer and a peer process that uses the same semaphore.     *)
(*                                                                         *)
(* Unsigned values of up to 64 bits are sets of bit positions (bit b set   *)
(* <=> b is in the set), so that bitwise AND is set intersection and the   *)
(* conversion to a narrower type keeps the positions below its width.      *)
(***************************************************************************)
EXTENDS Integers, FiniteSets, Sequences, TLC

\* ------------------------------------------------------------------ bounds
MaxLimit == 12
MaxInterval == 2
MaxShmSize == 8
MaxOffset == 2
MaxElements == 2
LongInterval == 2500
MaxTime == 10

\* largest number of ticks followed when --limit is 0 (no limit)
TickCap == MaxLimit + 1

\* ------------------------------------------------------- program constants
MAX_SEM_ERROR == 1000
SEM_ERROR_INC == 100

EX_OK == 0
EX_USAGE == 64
EX_DATAERR == 65
EX_SOFTWARE == 70
EX_OSERR == 71

\* "no value": option --elements not given, no exit code yet
None == -1

\* --------------------------------------------------------------- bit values
Bits(n) == 0 .. (n - 1)

\* ~static_cast<std::size_t>(0)
NoMask == Bits(64)

\* static_cast<T>(x) for an unsigned T of w bytes
CastTo(w, x) == x \cap Bits(8 * w)

\* std::numeric_limits<T>::max() for an unsigned T of w bytes
NumericMax(w) == Bits(8 * w)

\* values drawn from dist(0, max): the two ends of the range and a mixed one
DistValues(w) == { {}, NumericMax(w), {b \in Bits(8 * w) : b % 2 = 0} }

\* the random value stored without the mask
MaskedValue_NoMask(w, r, mask) == CastTo(w, r)

\* dist(re) & static_cast<T>(bitmask), converted to T by the assignment
MaskedValue(w, r, mask) == CastTo(w, r \cap CastTo(w, mask))

\* byte j (little endian) of value v
ByteOf(v, j) == {b \in Bits(8) : (8 * j + b) \in v}

\* the T of w bytes stored at byte address a of memory m
ElementAt(m, a, w) == UNION { {8 * j + b : b \in m[a + j]} : j \in 0 .. (w - 1) }

\* reinterpret_cast<T *>(data)[i] = v, with data = base + off; bytes outside
\* the mapping are not part of m
StoreElement(m, off, w, i, v) ==
    [a \in DOMAIN m |->
        IF a >= off + i * w /\ a < off + (i + 1) * w
        THEN ByteOf(v, a - (off + i * w))
        ELSE m[a]]

\* byte addresses touched by the store of element i
ElementBytes(off, w, i) == (off + i * w) .. (off + (i + 1) * w - 1)

\* ---------------------------------------------------------------- state
VARIABLES
    args,               \* parsed command line and the size of the segment
    pc,                 \* position of the process in main()
    exit_code,          \* value returned by main(), None while running
    interval_counter,   \* --limit
    random_interval_ms, \* effective interval
    bitmask,
    alignment,
    shm_open,           \* the SharedMemory object exists
    OFFSET,
    SIZE,
    shm_elements,
    semaphore,          \* the Semaphore object exists (unique_ptr not null)
    semaphore_max_time, \* timespec
    timer_running,      \* interval_timer.start() was called
    sigalrm_blocked,    \* SIGALRM is in the signal mask
    alarm_pending,      \* a SIGALRM is pending
    counter,            \* loop counter of handle_counter
    terminate,          \* volatile flag
    sem_error_counter,
    fill_i,             \* loop variable i of random_data
    mem,                \* bytes of the shared memory
    sem_value,          \* value of the named semaphore
    sem_acquired,       \* Semaphore::is_acquired()
    peer_pc,            \* the other process using the semaphore
    clock,              \* wall-clock time and the interval timer's schedule
    \* history
    signalled,          \* a SIGINT/SIGTERM was delivered
    ticks,              \* number of loop iterations started
    sem_timeouts,       \* bounded waits that timed out
    sem_successes,      \* bounded waits that succeeded
    wait_kind,          \* kind of the acquire of the current tick
    written             \* byte addresses stored to by random_data

vars == << args, clock, pc, exit_code, interval_counter, random_interval_ms, bitmask,
           alignment, shm_open, OFFSET, SIZE, shm_elements, semaphore,
           semaphore_max_time, timer_running, sigalrm_blocked, alarm_pending,
           counter, terminate, sem_error_counter, fill_i, mem, sem_value,
           sem_acquired, peer_pc, signalled, ticks, sem_timeouts,
           sem_successes, wait_kind, written >>

cfgVars == << interval_counter, random_interval_ms, bitmask, alignment >>
shmVars == << shm_open, OFFSET, SIZE, shm_elements >>
semVars == << semaphore, semaphore_max_time >>
histVars == << signalled, ticks, sem_timeouts, sem_successes, wait_kind, written >>

\* ------------------------------------------------------------ command lines
Alignments == {1, 2, 4, 8}

\* --mask values: none, 0x1, 0x100, 0x8000000000000001, 0xFF, 0x0
Masks == { NoMask, {0}, {8}, {0, 63}, Bits(8), {} }

ArgRec(l, i, a, m, o, e, s, c, sz) ==
    [limit |-> l, interval |-> i, alignment |-> a, mask |-> m, offset |-> o,
     elements |-> e, semaphore |-> s, create |-> c, shm_size |-> sz]

\* schedules without a semaphore, one byte of memory
SchedArgs ==
    { ArgRec(l, i, 1, {0}, 0, None, FALSE, FALSE, 1) :
        l \in 0 .. MaxLimit, i \in 0 .. MaxInterval }

\* schedules with a semaphore
SemArgs ==
    { ArgRec(l, i, 1, {}, 0, None, TRUE, FALSE, 1) :
        l \in {0, 1, 2, MaxLimit}, i \in (0 .. MaxInterval) \cup {LongInterval} }
    \cup { ArgRec(2, 2, 2, {0}, 0, None, TRUE, TRUE, 4) }

\* memory layouts and masks, at most two ticks without waiting
FillArgs ==
    { ArgRec(1, 0, a, m, o, e, FALSE, FALSE, sz) :
        a \in Alignments, m \in Masks, o \in 0 .. MaxOffset,
        e \in 0 .. MaxElements, sz \in 0 .. MaxShmSize }
    \cup { ArgRec(1, 0, a, m, o, None, FALSE, FALSE, sz) :
        a \in Alignments, m \in {NoMask, {0, 63}}, o \in 0 .. MaxOffset,
        sz \in 0 .. MaxShmSize }
    \cup { ArgRec(1, 0, a, m, 0, None, FALSE, FALSE, 4) :
        a \in Alignments, m \in Masks }
    \cup { ArgRec(2, 0, a, m, o, e, FALSE, FALSE, sz) :
        a \in {1, 2}, m \in {NoMask, {0}}, o \in {0, 1},
        e \in {None, 1}, sz \in 0 .. 3 }

\* a value of --alignment that is rejected
BadArgs == { ArgRec(0, 1, 3, NoMask, 0, None, FALSE, FALSE, 1) }

\* a semaphore and an interval configured, but no element to work on: the
\* segment smaller than one element, the offset at or behind its end, or
\* --elements 0
EmptyArgs ==
    { ArgRec(2, 2, t[1], {}, t[2], t[3], TRUE, c, 1) :
        c \in BOOLEAN,
        t \in { <<2, 0, None>>, <<1, 1, None>>, <<1, 2, None>>, <<1, 0, 0>> } }

ArgSet == SchedArgs \cup SemArgs \cup FillArgs \cup BadArgs \cup EmptyArgs

\* the clock when time is not followed, and at the start when it is
ClockOff == [on |-> FALSE, now |-> 0, next_expiry |-> 0, timer_start |-> 0, late |-> FALSE]
ClockOn == [ClockOff EXCEPT !.on = TRUE]

\* the state of the process when main() is entered
InitProcess ==
    /\ pc = "parse"
    /\ exit_code = None
    /\ interval_counter = 0
    /\ random_interval_ms = 0
    /\ bitmask = NoMask
    /\ alignment = 1
    /\ shm_open = FALSE
    /\ OFFSET = 0
    /\ SIZE = 0
    /\ shm_elements = 0
    /\ semaphore = FALSE
    /\ semaphore_max_time = [tv_sec |-> 0, tv_nsec |-> 0]
    /\ timer_running = FALSE
    /\ sigalrm_blocked = FALSE
    /\ alarm_pending = FALSE
    /\ counter = 0
    /\ terminate = FALSE
    /\ sem_error_counter = 0
    /\ fill_i = 0
    /\ mem = [a \in 0 .. (args.shm_size - 1) |-> Bits(8)]
    /\ sem_value = 1
    /\ sem_acquired = FALSE
    /\ peer_pc = "idle"
    /\ signalled = FALSE
    /\ ticks = 0
    /\ sem_timeouts = 0
    /\ sem_successes = 0
    /\ wait_kind = "none"
    /\ written = {}

Init ==
    /\ args \in ArgSet
    /\ clock = ClockOff
    /\ InitProcess

\* ----------------------------------------------------------------- start-up
\* the interval taken as given, whatever the limit
EffectiveInterval_AsGiven(limit, interval) == interval

\* the effective interval: --limit 1 runs once, without a timer
EffectiveInterval(limit, interval) == IF limit # 1 THEN interval ELSE 0

\* alignment switch, limit, interval and mask
ParseArgs ==
    /\ pc = "parse"
    /\ args.alignment \in Alignments
    /\ alignment' = args.alignment
    /\ interval_counter' = args.limit
    /\ random_interval_ms' = EffectiveInterval(args.limit, args.interval)
    /\ bitmask' = args.mask
    /\ pc' = "open_shm"
    /\ UNCHANGED << args, clock, exit_code, shmVars, semVars, timer_running,
                    sigalrm_blocked, alarm_pending, counter, terminate,
                    sem_error_counter, fill_i, mem, sem_value, sem_acquired,
                    peer_pc, histVars >>

\* default branch of the alignment switch
ParseArgsInvalid ==
    /\ pc = "parse"
    /\ args.alignment \notin Alignments
    /\ pc' = "exit"
    /\ exit_code' = EX_USAGE
    /\ UNCHANGED << args, clock, cfgVars, shmVars, semVars, timer_running,
                    sigalrm_blocked, alarm_pending, counter, terminate,
                    sem_error_counter, fill_i, mem, sem_value, sem_acquired,
                    peer_pc, histVars >>

\* the SharedMemory constructor succeeds
OpenShm ==
    /\ pc = "open_shm"
    /\ shm_open' = TRUE
    /\ pc' = "elements"
    /\ UNCHANGED << args, clock, exit_code, cfgVars, OFFSET, SIZE, shm_elements,
                    semVars, timer_running, sigalrm_blocked, alarm_pending,
                    counter, terminate, sem_error_counter, fill_i, mem,
                    sem_value, sem_acquired, peer_pc, histVars >>

\* the SharedMemory constructor throws
OpenShmFail ==
    /\ pc = "open_shm"
    /\ pc' = "exit"
    /\ exit_code' = EX_OSERR
    /\ UNCHANGED << args, clock, cfgVars, shmVars, semVars, timer_running,
                    sigalrm_blocked, alarm_pending, counter, terminate,
                    sem_error_counter, fill_i, mem, sem_value, sem_acquired,
                    peer_pc, histVars >>

\* SIZE: bytes of the segment behind the offset
EffectiveSize(size, offset) == IF offset > size THEN 0 ELSE size - offset

\* the element count without the --elements cap
ElementCount_NoCap(size, offset, w, cap) == EffectiveSize(size, offset) \div w

\* the element count rounded up instead of down
ElementCount_RoundUp(size, offset, w, cap) ==
    LET n == (EffectiveSize(size, offset) + w - 1) \div w
    IN  IF cap # None THEN (IF cap < n THEN cap ELSE n) ELSE n

\* shm_elements: SIZE / alignment, capped by --elements when given
ElementCount(size, offset, w, cap) ==
    LET n == EffectiveSize(size, offset) \div w
    IN  IF cap # None THEN (IF cap < n THEN cap ELSE n) ELSE n

\* the check for zero elements left out: main goes on to the semaphore
ComputeElements_NoCheck ==
    /\ pc = "elements"
    /\ OFFSET' = args.offset
    /\ SIZE' = EffectiveSize(args.shm_size, args.offset)
    /\ shm_elements' = ElementCount(args.shm_size, args.offset, alignment, args.elements)
    /\ pc' = "open_sem"
    /\ exit_code' = exit_code
    /\ UNCHANGED << args, clock, cfgVars, shm_open, semVars, timer_running,
                    sigalrm_blocked, alarm_pending, counter, terminate,
                    sem_error_counter, fill_i, mem, sem_value, sem_acquired,
                    peer_pc, histVars >>

\* OFFSET, SIZE, shm_elements and the check for zero elements
ComputeElements ==
    /\ pc = "elements"
    /\ OFFSET' = args.offset
    /\ SIZE' = EffectiveSize(args.shm_size, args.offset)
    /\ shm_elements' = ElementCount(args.shm_size, args.offset, alignment, args.elements)
    /\ IF shm_elements' = 0
       THEN pc' = "exit" /\ exit_code' = EX_DATAERR
       ELSE pc' = "open_sem" /\ exit_code' = exit_code
    /\ UNCHANGED << args, clock, cfgVars, shm_open, semVars, timer_running,
                    sigalrm_blocked, alarm_pending, counter, terminate,
                    sem_error_counter, fill_i, mem, sem_value, sem_acquired,
                    peer_pc, histVars >>

\* semaphore_max_time: half the interval as a timespec
SemaphoreMaxTime(ms) ==
    [tv_sec |-> (ms \div 2) \div 1000, tv_nsec |-> ((ms \div 2) % 1000) * 1000000]

\* the semaphore is opened or created (or not configured)
OpenSemaphore ==
    /\ pc = "open_sem"
    /\ IF args.semaphore
       THEN /\ semaphore' = TRUE
            /\ semaphore_max_time' = SemaphoreMaxTime(random_interval_ms)
            /\ sem_value' = IF args.create THEN 1 ELSE sem_value
       ELSE UNCHANGED << semaphore, semaphore_max_time, sem_value >>
    /\ pc' = "timer"
    /\ UNCHANGED << args, clock, exit_code, cfgVars, shmVars, timer_running,
                    sigalrm_blocked, alarm_pending, counter, terminate,
                    sem_error_counter, fill_i, mem, sem_acquired, peer_pc,
                    histVars >>

\* the exception of the Semaphore constructor swallowed: main goes on
OpenSemaphoreFail_Continue ==
    /\ pc = "open_sem"
    /\ args.semaphore
    /\ pc' = "timer"
    /\ exit_code' = exit_code
    /\ UNCHANGED << args, clock, cfgVars, shmVars, semVars, timer_running,
                    sigalrm_blocked, alarm_pending, counter, terminate,
                    sem_error_counter, fill_i, mem, sem_value, sem_acquired,
                    peer_pc, histVars >>

\* the Semaphore constructor throws
OpenSemaphoreFail ==
    /\ pc = "open_sem"
    /\ args.semaphore
    /\ pc' = "exit"
    /\ exit_code' = EX_SOFTWARE
    /\ UNCHANGED << args, clock, cfgVars, shmVars, semVars, timer_running,
                    sigalrm_blocked, alarm_pending, counter, terminate,
                    sem_error_counter, fill_i, mem, sem_value, sem_acquired,
                    peer_pc, histVars >>

\* if (random_interval_ms) interval_timer.start()
StartTimer ==
    /\ pc = "timer"
    /\ timer_running' = (random_interval_ms # 0)
    /\ clock' = IF clock.on /\ random_interval_ms # 0
                THEN [clock EXCEPT !.next_expiry = clock.now + random_interval_ms,
                                   !.timer_start = clock.now]
                ELSE clock
    /\ pc' = "sigblock"
    /\ UNCHANGED << args, exit_code, cfgVars, shmVars, semVars,
                    sigalrm_blocked, alarm_pending, counter, terminate,
                    sem_error_counter, fill_i, mem, sem_value, sem_acquired,
                    peer_pc, histVars >>

\* sigprocmask(SIG_BLOCK, {SIGALRM})
BlockSigalrm ==
    /\ pc = "sigblock"
    /\ sigalrm_blocked' = TRUE
    /\ pc' = "loop"
    /\ UNCHANGED << args, clock, exit_code, cfgVars, shmVars, semVars, timer_running,
                    alarm_pending, counter, terminate, sem_error_counter,
                    fill_i, mem, sem_value, sem_acquired, peer_pc, histVars >>

\* ---------------------------------------------------------------- main loop
Alive == pc \notin {"exit", "killed"}

\* while (!terminate): the loop ends, "Terminating...", main returns
LoopExit ==
    /\ pc = "loop"
    /\ terminate
    /\ pc' = "exit"
    /\ exit_code' = EX_OK
    /\ UNCHANGED << args, clock, cfgVars, shmVars, semVars, timer_running,
                    sigalrm_blocked, alarm_pending, counter, terminate,
                    sem_error_counter, fill_i, mem, sem_value, sem_acquired,
                    peer_pc, histVars >>

\* the body entered without looking at the flag
LoopEnter_IgnoreTerminate ==
    /\ pc = "loop"
    /\ ticks < TickCap
    /\ pc' = "acquire"
    /\ ticks' = ticks + 1
    /\ wait_kind' = "none"
    /\ fill_i' = 0
    /\ UNCHANGED << args, clock, exit_code, cfgVars, shmVars, semVars, timer_running,
                    sigalrm_blocked, alarm_pending, counter, terminate,
                    sem_error_counter, mem, sem_value, sem_acquired, peer_pc,
                    signalled, sem_timeouts, sem_successes, written >>

\* while (!terminate): the body is entered, random_data is called
LoopEnter ==
    /\ pc = "loop"
    /\ ~terminate
    /\ ticks < TickCap
    /\ pc' = "acquire"
    /\ ticks' = ticks + 1
    /\ wait_kind' = "none"
    /\ fill_i' = 0
    /\ UNCHANGED << args, clock, exit_code, cfgVars, shmVars, semVars, timer_running,
                    sigalrm_blocked, alarm_pending, counter, terminate,
                    sem_error_counter, mem, sem_value, sem_acquired, peer_pc,
                    signalled, sem_timeouts, sem_successes, written >>

\* semaphore_max_time.tv_sec == 0 && semaphore_max_time.tv_nsec == 0
NoMaxTime(t) == t.tv_sec = 0 /\ t.tv_nsec = 0

\* if (semaphore) is false: no acquire
AcquireSkip ==
    /\ pc = "acquire"
    /\ ~semaphore
    /\ pc' = "fill"
    /\ UNCHANGED << args, clock, exit_code, cfgVars, shmVars, semVars, timer_running,
                    sigalrm_blocked, alarm_pending, counter, terminate,
                    sem_error_counter, fill_i, mem, sem_value, sem_acquired,
                    peer_pc, histVars >>

\* semaphore->wait(): returns once the semaphore could be decremented
AcquireBlocking ==
    /\ pc = "acquire"
    /\ semaphore
    /\ NoMaxTime(semaphore_max_time)
    /\ sem_value > 0
    /\ sem_value' = sem_value - 1
    /\ sem_acquired' = TRUE
    /\ wait_kind' = "blocking"
    /\ pc' = "fill"
    /\ UNCHANGED << args, clock, exit_code, cfgVars, shmVars, semVars, timer_running,
                    sigalrm_blocked, alarm_pending, counter, terminate,
                    sem_error_counter, fill_i, mem, peer_pc, signalled, ticks,
                    sem_timeouts, sem_successes, written >>

\* the decrement without the test for zero
DecErrorCounter_NoFloor(c) == c - 1

\* if (sem_error_counter) --sem_error_counter
DecErrorCounter(c) == IF c # 0 THEN c - 1 ELSE c

\* wait(semaphore_max_time) reports success without taking the semaphore
AcquireTimedOk_NoDecrement ==
    /\ pc = "acquire"
    /\ semaphore
    /\ ~NoMaxTime(semaphore_max_time)
    /\ sem_value > 0
    /\ sem_value' = sem_value
    /\ sem_acquired' = TRUE
    /\ sem_error_counter' = DecErrorCounter(sem_error_counter)
    /\ sem_successes' = sem_successes + 1
    /\ wait_kind' = "bounded"
    /\ pc' = "fill"
    /\ UNCHANGED << args, clock, exit_code, cfgVars, shmVars, semVars, timer_running,
                    sigalrm_blocked, alarm_pending, counter, terminate,
                    fill_i, mem, peer_pc, signalled, ticks, sem_timeouts,
                    written >>

\* semaphore->wait(semaphore_max_time) returns true
AcquireTimedOk ==
    /\ pc = "acquire"
    /\ semaphore
    /\ ~NoMaxTime(semaphore_max_time)
    /\ sem_value > 0
    /\ sem_value' = sem_value - 1
    /\ sem_acquired' = TRUE
    /\ sem_error_counter' = DecErrorCounter(sem_error_counter)
    /\ sem_successes' = sem_successes + 1
    /\ wait_kind' = "bounded"
    /\ pc' = "fill"
    /\ UNCHANGED << args, clock, exit_code, cfgVars, shmVars, semVars, timer_running,
                    sigalrm_blocked, alarm_pending, counter, terminate,
                    fill_i, mem, peer_pc, signalled, ticks, sem_timeouts,
                    written >>

\* the ceiling compared with > instead of >=
ErrorCeiling_Strict(c) == c > MAX_SEM_ERROR

\* the ceiling reached by the first timeout
ErrorCeiling_Early(c) == c >= SEM_ERROR_INC

\* sem_error_counter >= MAX_SEM_ERROR
ErrorCeiling(c) == c >= MAX_SEM_ERROR

\* semaphore->wait(semaphore_max_time) returns false: the semaphore stayed
\* unavailable for the whole wait
AcquireTimeout ==
    /\ pc = "acquire"
    /\ semaphore
    /\ ~NoMaxTime(semaphore_max_time)
    /\ sem_value = 0
    /\ sem_error_counter' = sem_error_counter + SEM_ERROR_INC
    /\ terminate' = (terminate \/ ErrorCeiling(sem_error_counter'))
    /\ sem_timeouts' = sem_timeouts + 1
    /\ wait_kind' = "timeout"
    /\ pc' = "fill"
    /\ UNCHANGED << args, clock, exit_code, cfgVars, shmVars, semVars, timer_running,
                    sigalrm_blocked, alarm_pending, counter, fill_i, mem,
                    sem_value, sem_acquired, peer_pc, signalled, ticks,
                    sem_successes, written >>

\* one iteration of for (i = 0; i < elements; ++i)
FillElement ==
    /\ pc = "fill"
    /\ fill_i < shm_elements
    /\ \E r \in DistValues(alignment) :
          mem' = StoreElement(mem, OFFSET, alignment, fill_i,
                              MaskedValue(alignment, r, bitmask))
    /\ written' = written \cup ElementBytes(OFFSET, alignment, fill_i)
    /\ fill_i' = fill_i + 1
    /\ pc' = IF fill_i' < shm_elements THEN "fill" ELSE "post"
    /\ UNCHANGED << args, clock, exit_code, cfgVars, shmVars, semVars, timer_running,
                    sigalrm_blocked, alarm_pending, counter, terminate,
                    sem_error_counter, sem_value, sem_acquired, peer_pc,
                    signalled, ticks, sem_timeouts, sem_successes, wait_kind >>

\* nanosleep-like wait: the interval counted from the begin of the wait
EnterSleep_Relative(c) ==
    IF c.on /\ random_interval_ms # 0
    THEN [c EXCEPT !.next_expiry = c.now + random_interval_ms]
    ELSE c

\* handle_sleep is called: sigwait takes a SIGALRM that is already pending,
\* the tick was then not finished within its interval
EnterSleep(c) ==
    IF c.on /\ random_interval_ms # 0
    THEN [c EXCEPT !.late = c.late \/ alarm_pending]
    ELSE c

\* random_data returns without the post
Post_Skip ==
    /\ pc = "post"
    /\ UNCHANGED << sem_value, sem_acquired >>
    /\ pc' = "sleep"
    /\ clock' = EnterSleep(clock)
    /\ UNCHANGED << args, exit_code, cfgVars, shmVars, semVars, timer_running,
                    sigalrm_blocked, alarm_pending, counter, terminate,
                    sem_error_counter, fill_i, mem, peer_pc, histVars >>

\* post without asking is_acquired()
Post_Unconditional ==
    /\ pc = "post"
    /\ IF semaphore
       THEN sem_value' = sem_value + 1 /\ sem_acquired' = FALSE
       ELSE UNCHANGED << sem_value, sem_acquired >>
    /\ pc' = "sleep"
    /\ clock' = EnterSleep(clock)
    /\ UNCHANGED << args, exit_code, cfgVars, shmVars, semVars, timer_running,
                    sigalrm_blocked, alarm_pending, counter, terminate,
                    sem_error_counter, fill_i, mem, peer_pc, histVars >>

\* if (semaphore && semaphore->is_acquired()) semaphore->post()
Post ==
    /\ pc = "post"
    /\ IF semaphore /\ sem_acquired
       THEN sem_value' = sem_value + 1 /\ sem_acquired' = FALSE
       ELSE UNCHANGED << sem_value, sem_acquired >>
    /\ pc' = "sleep"
    /\ clock' = EnterSleep(clock)
    /\ UNCHANGED << args, exit_code, cfgVars, shmVars, semVars, timer_running,
                    sigalrm_blocked, alarm_pending, counter, terminate,
                    sem_error_counter, fill_i, mem, peer_pc, histVars >>

\* handle_sleep without the sigwait
HandleSleep_NoWait ==
    /\ pc = "sleep"
    /\ alarm_pending' = alarm_pending
    /\ pc' = "count"
    /\ UNCHANGED << args, clock, exit_code, cfgVars, shmVars, semVars, timer_running,
                    sigalrm_blocked, counter, terminate, sem_error_counter,
                    fill_i, mem, sem_value, sem_acquired, peer_pc, histVars >>

\* handle_sleep: returns at once without an interval, otherwise sigwait
\* returns when a SIGALRM is pending and consumes it
HandleSleep ==
    /\ pc = "sleep"
    /\ IF random_interval_ms = 0
       THEN alarm_pending' = alarm_pending
       ELSE alarm_pending /\ alarm_pending' = FALSE
    /\ pc' = "count"
    /\ UNCHANGED << args, clock, exit_code, cfgVars, shmVars, semVars, timer_running,
                    sigalrm_blocked, counter, terminate, sem_error_counter,
                    fill_i, mem, sem_value, sem_acquired, peer_pc, histVars >>

\* handle_counter with the comparison of the nanosleep variants
CounterReached_After(limit, c) == limit # 0 /\ c > limit

\* handle_counter: true when the limit is reached
CounterReached(limit, c) == limit # 0 /\ c >= limit

\* if (handle_counter()) break
HandleCounter ==
    /\ pc = "count"
    /\ counter' = IF interval_counter # 0 THEN counter + 1 ELSE counter
    /\ IF CounterReached(interval_counter, counter')
       THEN pc' = "exit" /\ exit_code' = EX_OK
       ELSE pc' = "loop" /\ exit_code' = exit_code
    /\ UNCHANGED << args, clock, cfgVars, shmVars, semVars, timer_running,
                    sigalrm_blocked, alarm_pending, terminate,
                    sem_error_counter, fill_i, mem, sem_value, sem_acquired,
                    peer_pc, histVars >>

\* -------------------------------------------------------------- environment
\* sig_term_handler runs (SIGINT or SIGTERM, handlers installed)
SigTerm ==
    /\ Alive
    /\ pc \notin {"parse"}
    /\ terminate' = TRUE
    /\ signalled' = TRUE
    /\ UNCHANGED << args, clock, pc, exit_code, cfgVars, shmVars, semVars,
                    timer_running, sigalrm_blocked, alarm_pending, counter,
                    sem_error_counter, fill_i, mem, sem_value, sem_acquired,
                    peer_pc, ticks, sem_timeouts, sem_successes, wait_kind,
                    written >>

\* the timer is due: at its expiration time when time is followed
TimerDue == ~clock.on \/ clock.now = clock.next_expiry

\* it_interval: the next expiration is one interval after this one
Rearm(c) == IF c.on THEN [c EXCEPT !.next_expiry = c.next_expiry + random_interval_ms]
            ELSE c

\* the interval timer expires while SIGALRM is blocked: the signal stays
\* pending (one pending instance at most)
TimerExpire ==
    /\ Alive
    /\ timer_running
    /\ sigalrm_blocked
    /\ TimerDue
    /\ clock.on \/ ~alarm_pending
    /\ alarm_pending' = TRUE
    /\ clock' = Rearm(clock)
    /\ UNCHANGED << args, pc, exit_code, cfgVars, shmVars, semVars,
                    timer_running, sigalrm_blocked, counter, terminate,
                    sem_error_counter, fill_i, mem, sem_value, sem_acquired,
                    peer_pc, histVars >>

\* the interval timer expires while SIGALRM is not blocked: default action
TimerExpireUnblocked ==
    /\ Alive
    /\ timer_running
    /\ ~sigalrm_blocked
    /\ TimerDue
    /\ pc' = "killed"
    /\ UNCHANGED << args, clock, exit_code, cfgVars, shmVars, semVars,
                    timer_running, sigalrm_blocked, alarm_pending, counter,
                    terminate, sem_error_counter, fill_i, mem, sem_value,
                    sem_acquired, peer_pc, histVars >>

\* the peer process acquires the semaphore
PeerWait ==
    /\ Alive
    /\ semaphore
    /\ peer_pc = "idle"
    /\ sem_value > 0
    /\ sem_value' = sem_value - 1
    /\ peer_pc' = "cs"
    /\ UNCHANGED << args, clock, pc, exit_code, cfgVars, shmVars, semVars,
                    timer_running, sigalrm_blocked, alarm_pending, counter,
                    terminate, sem_error_counter, fill_i, mem, sem_acquired,
                    histVars >>

\* the peer process releases the semaphore
PeerPost ==
    /\ Alive
    /\ semaphore
    /\ peer_pc = "cs"
    /\ sem_value' = sem_value + 1
    /\ peer_pc' = "idle"
    /\ UNCHANGED << args, clock, pc, exit_code, cfgVars, shmVars, semVars,
                    timer_running, sigalrm_blocked, alarm_pending, counter,
                    terminate, sem_error_counter, fill_i, mem, sem_acquired,
                    histVars >>

\* one millisecond passes; a due expiration and a wait that can return at
\* once come first
Advance ==
    /\ clock.on
    /\ Alive
    /\ clock.now < MaxTime
    /\ timer_running => clock.now < clock.next_expiry
    /\ ~(pc = "sleep" /\ (alarm_pending \/ random_interval_ms = 0))
    /\ clock' = [clock EXCEPT !.now = clock.now + 1]
    /\ UNCHANGED << args, pc, exit_code, cfgVars, shmVars, semVars,
                    timer_running, sigalrm_blocked, alarm_pending, counter,
                    terminate, sem_error_counter, fill_i, mem, sem_value,
                    sem_acquired, peer_pc, histVars >>

Next ==
    \/ ParseArgs
    \/ ParseArgsInvalid
    \/ OpenShm
    \/ OpenShmFail
    \/ ComputeElements
    \/ OpenSemaphore
    \/ OpenSemaphoreFail
    \/ StartTimer
    \/ BlockSigalrm
    \/ LoopExit
    \/ LoopEnter
    \/ AcquireSkip
    \/ AcquireBlocking
    \/ AcquireTimedOk
    \/ AcquireTimeout
    \/ FillElement
    \/ Post
    \/ HandleSleep
    \/ HandleCounter
    \/ SigTerm
    \/ TimerExpire
    \/ TimerExpireUnblocked
    \/ PeerWait
    \/ PeerPost

Spec == Init /\ [][Next]_vars

\* ------------------------------------------------------ time followed
\* schedules whose wall-clock time is followed
TimedArgs ==
    { ArgRec(l, i, 1, {}, 0, None, FALSE, FALSE, 1) : l \in {0, 2, 3}, i \in {0, 2, 3} }
    \cup { ArgRec(2, 2, 1, {}, 0, None, TRUE, FALSE, 1),
           ArgRec(1, 2, 1, {}, 0, None, TRUE, FALSE, 1) }
    \cup BadArgs

InitTimed ==
    /\ args \in TimedArgs
    /\ clock = ClockOn
    /\ InitProcess

NextTimed == Next \/ Advance

SpecTimed == InitTimed /\ [][NextTimed]_vars

\* ------------------------------------------- nanosleep variants (main.cpp)
\* The earlier variants of the program: no semaphore, no timer; the loop
\* sleeps with nanosleep and counts with ++counter > interval_counter.
\* Start-up as far as it is the same (alignment switch, opening the shared
\* memory, signal handler, fill) uses the definitions above.
NanoArgs ==
    { ArgRec(l, i, a, {0}, 0, None, FALSE, FALSE, sz) :
        l \in 0 .. 3, i \in 0 .. MaxInterval, a \in {1, 2}, sz \in {1, 2} }
    \cup BadArgs

InitNanosleep ==
    /\ args \in NanoArgs
    /\ clock = ClockOff
    /\ InitProcess

\* interval and limit taken as given
NanoParseArgs ==
    /\ pc = "parse"
    /\ args.alignment \in Alignments
    /\ alignment' = args.alignment
    /\ interval_counter' = args.limit
    /\ random_interval_ms' = args.interval
    /\ bitmask' = args.mask
    /\ pc' = "open_shm"
    /\ UNCHANGED << args, clock, exit_code, shmVars, semVars, timer_running,
                    sigalrm_blocked, alarm_pending, counter, terminate,
                    sem_error_counter, fill_i, mem, sem_value, sem_acquired,
                    peer_pc, histVars >>

\* OFFSET, SIZE, shm_elements; the loop follows at once
NanoComputeElements ==
    /\ pc = "elements"
    /\ OFFSET' = args.offset
    /\ SIZE' = EffectiveSize(args.shm_size, args.offset)
    /\ shm_elements' = ElementCount(args.shm_size, args.offset, alignment, args.elements)
    /\ IF shm_elements' = 0
       THEN pc' = "exit" /\ exit_code' = EX_DATAERR
       ELSE pc' = "loop" /\ exit_code' = exit_code
    /\ UNCHANGED << args, clock, cfgVars, shm_open, semVars, timer_running,
                    sigalrm_blocked, alarm_pending, counter, terminate,
                    sem_error_counter, fill_i, mem, sem_value, sem_acquired,
                    peer_pc, histVars >>

\* while (!terminate): random_data is called
NanoLoopEnter ==
    /\ pc = "loop"
    /\ ~terminate
    /\ ticks < TickCap
    /\ pc' = "fill"
    /\ ticks' = ticks + 1
    /\ fill_i' = 0
    /\ UNCHANGED << args, clock, exit_code, cfgVars, shmVars, semVars,
                    timer_running, sigalrm_blocked, alarm_pending, counter,
                    terminate, sem_error_counter, mem, sem_value, sem_acquired,
                    peer_pc, signalled, sem_timeouts, sem_successes, wait_kind,
                    written >>

\* one iteration of the for loop of random_data; nanosleep follows the last
NanoFillElement ==
    /\ pc = "fill"
    /\ fill_i < shm_elements
    /\ \E r \in DistValues(alignment) :
          mem' = StoreElement(mem, OFFSET, alignment, fill_i,
                              MaskedValue(alignment, r, bitmask))
    /\ written' = written \cup ElementBytes(OFFSET, alignment, fill_i)
    /\ fill_i' = fill_i + 1
    /\ pc' = IF fill_i' < shm_elements THEN "fill" ELSE "sleep"
    /\ UNCHANGED << args, clock, exit_code, cfgVars, shmVars, semVars,
                    timer_running, sigalrm_blocked, alarm_pending, counter,
                    terminate, sem_error_counter, sem_value, sem_acquired,
                    peer_pc, signalled, ticks, sem_timeouts, sem_successes,
                    wait_kind >>

\* nanosleep(&sleep_time, nullptr) returns, after the interval or at a signal
NanoSleep ==
    /\ pc = "sleep"
    /\ pc' = "count"
    /\ UNCHANGED << args, clock, exit_code, cfgVars, shmVars, semVars,
                    timer_running, sigalrm_blocked, alarm_pending, counter,
                    terminate, sem_error_counter, fill_i, mem, sem_value,
                    sem_acquired, peer_pc, histVars >>

\* ++counter > interval_counter
NanoCounterReached(limit, c) == limit # 0 /\ c > limit

\* if (interval_counter) { if (++counter > interval_counter) break; }
NanoHandleCounter ==
    /\ pc = "count"
    /\ counter' = IF interval_counter # 0 THEN counter + 1 ELSE counter
    /\ IF NanoCounterReached(interval_counter, counter')
       THEN pc' = "exit" /\ exit_code' = EX_OK
       ELSE pc' = "loop" /\ exit_code' = exit_code
    /\ UNCHANGED << args, clock, cfgVars, shmVars, semVars, timer_running,
                    sigalrm_blocked, alarm_pending, terminate,
                    sem_error_counter, fill_i, mem, sem_value, sem_acquired,
                    peer_pc, histVars >>

NextNanosleep ==
    \/ NanoParseArgs
    \/ ParseArgsInvalid
    \/ OpenShm
    \/ OpenShmFail
    \/ NanoComputeElements
    \/ LoopExit
    \/ NanoLoopEnter
    \/ NanoFillElement
    \/ NanoSleep
    \/ NanoHandleCounter
    \/ SigTerm

SpecNanosleep == InitNanosleep /\ [][NextNanosleep]_vars

\* =================================================================== claims
\* the loop has ended and main returned normally
CleanExit == pc = "exit" /\ exit_code = EX_OK

\* C1 (as stated): with limit N > 0 and interval > 0 and no termination
\* signal, the loop has performed exactly N fill ticks when the process exits.
C1_Original ==
    (CleanExit /\ args.limit > 0 /\ args.interval > 0 /\ ~signalled)
        => ticks = args.limit

\* C1 (amended): with limit N > 0 and interval > 0 there are never more than
\* N fill ticks, and if the terminate flag was never set (no signal, error
\* ceiling of the semaphore guard not reached) the process exits after
\* exactly N fill ticks.
C1_LimitTicks ==
    (args.limit > 0 /\ args.interval > 0) =>
        /\ ticks <= args.limit
        /\ (CleanExit /\ ~terminate) => ticks = args.limit

C1_Witness ==
    /\ CleanExit /\ ~terminate
    /\ args.semaphore /\ args.interval > 0
    /\ args.limit = MaxLimit /\ ticks = MaxLimit
    /\ sem_timeouts > 0

C3_Cooperative ==
    [][ /\ (signalled' /\ ~signalled) =>
              (terminate' /\ UNCHANGED << args, clock, pc, exit_code, cfgVars, shmVars,
                                          semVars, timer_running, sigalrm_blocked,
                                          alarm_pending, counter, sem_error_counter,
                                          fill_i, mem, sem_value, sem_acquired,
                                          peer_pc, ticks, written >>)
        /\ (pc = "fill" /\ pc' # "fill") => (pc' = "post" /\ fill_i' = shm_elements)
        /\ terminate => ticks' = ticks
      ]_vars

C3_Witness ==
    /\ signalled /\ terminate
    /\ pc = "fill" /\ 0 < fill_i /\ fill_i < shm_elements
    /\ ticks = 1 /\ Cardinality(written) = fill_i * alignment

\* number of timeouts in a row that reach the ceiling from zero
CeilingTimeouts == MAX_SEM_ERROR \div SEM_ERROR_INC

\* C4: while every bounded acquire has timed out and no signal arrived, the
\* terminate flag is set exactly from the 10th timeout on, and no tick
\* follows the 10th.
C4_TenTimeouts ==
    (semaphore /\ ~NoMaxTime(semaphore_max_time) /\ sem_successes = 0 /\ ~signalled) =>
        /\ terminate <=> (sem_timeouts = CeilingTimeouts)
        /\ sem_timeouts <= CeilingTimeouts
        /\ ticks <= CeilingTimeouts
        /\ ticks = sem_timeouts + (IF pc = "acquire" THEN 1 ELSE 0)

C4_Witness ==
    /\ CleanExit /\ ~signalled /\ terminate
    /\ sem_successes = 0 /\ sem_timeouts = CeilingTimeouts
    /\ ticks = CeilingTimeouts
    /\ args.limit = 0

\* C5 (as stated): the error counter stays in [0, MAX_SEM_ERROR].
C5_Original == sem_error_counter \in 0 .. MAX_SEM_ERROR

\* C5 (amended): the error counter stays in
\* [0, MAX_SEM_ERROR + SEM_ERROR_INC - 1], and it is at or above
\* MAX_SEM_ERROR only with the terminate flag set.
C5_CounterRange ==
    /\ sem_error_counter \in 0 .. (MAX_SEM_ERROR + SEM_ERROR_INC - 1)
    /\ sem_error_counter >= MAX_SEM_ERROR => terminate

C5_Witness ==
    /\ sem_error_counter = MAX_SEM_ERROR + SEM_ERROR_INC - 1
    /\ sem_successes = 1

\* floor(d / w) by its defining inequalities
FloorDiv(d, w) == CHOOSE k \in 0 .. d : k * w <= d /\ d < (k + 1) * w

\* C6: once computed, the element count is floor((size - offset) / width),
\* 0 when offset > size, capped by --elements; a count of 0 ends the process
\* with EX_DATAERR before any fill.
C6_ElementCount ==
    (pc \notin {"parse", "open_shm", "elements"} /\ shm_open) =>
        LET d == IF args.offset > args.shm_size THEN 0
                 ELSE args.shm_size - args.offset
            n == FloorDiv(d, args.alignment)
            expected == IF args.elements # None /\ args.elements < n
                        THEN args.elements ELSE n
        IN  /\ shm_elements = expected
            /\ (shm_elements = 0) =>
                  /\ pc = "exit" /\ exit_code = EX_DATAERR
                  /\ ticks = 0 /\ written = {}
            /\ (shm_elements # 0) => exit_code # EX_DATAERR

C6_Witness ==
    /\ pc = "exit" /\ exit_code = EX_DATAERR
    /\ args.elements = 2 /\ args.offset < args.shm_size
    /\ args.shm_size - args.offset < args.alignment

\* C7: element count * width <= size - offset (0 when offset > size), and
\* every byte stored by a fill lies in [offset, size).
C7_InRange ==
    /\ shm_elements * alignment <=
          (IF args.offset > args.shm_size THEN 0 ELSE args.shm_size - args.offset)
    /\ \A a \in written : args.offset <= a /\ a < args.shm_size

C7_Witness ==
    /\ pc = "post"
    /\ alignment = 4 /\ args.offset = 1 /\ args.shm_size = 8
    /\ written = 1 .. 4

\* C8: every element that a fill has stored has no bit outside the mask
\* truncated to the element width.
C8_Masked ==
    \A k \in 0 .. (shm_elements - 1) :
        ElementBytes(OFFSET, alignment, k) \subseteq written =>
            ElementAt(mem, OFFSET + k * alignment, alignment)
                \subseteq (args.mask \cap Bits(8 * alignment))

C8_Witness ==
    /\ ticks = 2 /\ pc = "post"
    /\ alignment = 2 /\ args.mask = {0} /\ shm_elements = 1
    /\ ElementAt(mem, OFFSET, alignment) = {0}

\* C9: in a tick whose bounded acquire timed out the fill is entered and
\* completed, the semaphore is not held, and the step after the fill does
\* not post.
C9_TimeoutFill ==
    /\ [](wait_kind = "timeout" =>
            /\ ~sem_acquired
            /\ pc \in {"fill", "post", "sleep", "count", "loop", "exit"}
            /\ (pc # "fill" => fill_i = shm_elements))
    /\ [][ (wait_kind = "timeout" /\ pc = "post" /\ pc' # "post")
              => (pc' = "sleep" /\ sem_value' = sem_value) ]_vars

C9_Witness ==
    /\ wait_kind = "timeout" /\ pc = "sleep"
    /\ fill_i = shm_elements /\ shm_elements = 2
    /\ sem_value = 0 /\ peer_pc = "cs"

\* C10 (as stated): with a semaphore, the acquire is a blocking wait exactly
\* when the interval is 0 and a bounded wait for every interval > 0; the
\* error counter changes only in bounded mode.
C10_Original ==
    /\ wait_kind = "blocking" => random_interval_ms = 0
    /\ wait_kind \in {"bounded", "timeout"} => random_interval_ms > 0
    /\ sem_error_counter # 0 => random_interval_ms > 0

\* C11 (as stated): in the tick-boundary wait a termination signal ends the
\* wait like a timer expiration does: with the terminate flag set by a signal
\* the wait can return without a pending SIGALRM.
C11_Original ==
    (pc = "sleep" /\ random_interval_ms # 0 /\ signalled /\ terminate)
        => ENABLED HandleSleep

\* C12 (as stated): in the nanosleep variants, with --limit N > 0 and no
\* termination signal the process has filled exactly N times when it exits.
C12_Original ==
    (CleanExit /\ args.limit > 0 /\ ~signalled) => ticks = args.limit

\* C13: a failure to open the shared memory or the semaphore ends the process
\* with EX_OSERR resp. EX_SOFTWARE before the timer is started and before any
\* fill, the loop is never reached without these resources, and once the
\* loop is reached the process only ends with EX_OK.
C13_StartupFatal ==
    /\ (pc = "exit" /\ ~sigalrm_blocked) =>
          /\ exit_code \in {EX_USAGE, EX_OSERR, EX_DATAERR, EX_SOFTWARE}
          /\ ~timer_running /\ ticks = 0 /\ written = {}
          /\ (args.alignment \in Alignments /\ ~shm_open) => exit_code = EX_OSERR
          /\ (shm_open /\ shm_elements > 0) =>
                (exit_code = EX_SOFTWARE /\ args.semaphore /\ ~semaphore)
    /\ exit_code = EX_OSERR => ~shm_open
    /\ exit_code = EX_SOFTWARE => (shm_open /\ ~semaphore)
    /\ sigalrm_blocked => (shm_open /\ (args.semaphore => semaphore))
    /\ (pc = "exit" /\ sigalrm_blocked) => exit_code = EX_OK
    /\ (ticks > 0 \/ sem_timeouts > 0) => exit_code \in {None, EX_OK}

C13_Witness ==
    /\ pc = "exit" /\ exit_code = EX_SOFTWARE
    /\ shm_open /\ ~semaphore /\ ~timer_running
    /\ args.interval > 0 /\ args.limit # 1

\* positions of main() inside the main loop
LoopStates == {"loop", "acquire", "fill", "post", "sleep", "count"}

\* C14: the loop is left only at the while condition with the terminate flag
\* set, by a signal or by the semaphore guard at the ceiling, or at
\* handle_counter with the limit reached.
C14_ExitReasons ==
    [][ (pc \in LoopStates /\ pc' \notin LoopStates) =>
           /\ pc' = "exit" /\ exit_code' = EX_OK
           /\ \/ /\ pc = "loop" /\ terminate
                 /\ signalled \/ sem_error_counter >= MAX_SEM_ERROR
              \/ /\ pc = "count" /\ interval_counter # 0
                 /\ counter' >= interval_counter
      ]_vars

C14_Witness ==
    /\ CleanExit /\ terminate /\ ~signalled
    /\ sem_successes > 0
    /\ interval_counter = MaxLimit /\ counter < interval_counter

\* C15: while the error counter is at or above the ceiling the flag is set,
\* the tick is still the one whose acquire timed out, its fill is run to the
\* end, and no tick is started.
C15_CeilingTick ==
    /\ [](sem_error_counter >= MAX_SEM_ERROR =>
            /\ terminate
            /\ wait_kind = "timeout"
            /\ pc \in {"fill", "post", "sleep", "count", "loop", "exit"}
            /\ (pc # "fill" => fill_i = shm_elements)
            /\ ticks = sem_timeouts + sem_successes)
    /\ [][ sem_error_counter >= MAX_SEM_ERROR => ticks' = ticks ]_vars

C15_Witness ==
    /\ sem_error_counter = MAX_SEM_ERROR /\ ~signalled
    /\ pc = "count" /\ fill_i = shm_elements
    /\ Cardinality(written) = shm_elements * alignment

\* C16: an acquire takes the semaphore, lowers the error counter by one
\* (not below 0) and leads to the fill; the semaphore is held only during
\* fill and post; the release is the one step from post to the wait; the
\* semaphore is never held in the wait, at the while condition or after the
\* loop.
C16_Balanced ==
    /\ [](/\ sem_acquired => pc \in {"fill", "post"}
          /\ semaphore =>
                sem_value + (IF sem_acquired THEN 1 ELSE 0)
                          + (IF peer_pc = "cs" THEN 1 ELSE 0) = 1)
    /\ [][ /\ (sem_acquired' /\ ~sem_acquired) =>
                /\ pc = "acquire" /\ pc' = "fill"
                /\ sem_value' = sem_value - 1
                /\ sem_error_counter' =
                      (IF sem_error_counter > 0 THEN sem_error_counter - 1 ELSE 0)
           /\ (sem_acquired /\ ~sem_acquired') =>
                /\ pc = "post" /\ pc' = "sleep"
                /\ sem_value' = sem_value + 1
           /\ (pc = "post" /\ pc' # "post") => ~sem_acquired'
      ]_vars

C16_Witness ==
    /\ pc = "sleep" /\ ~sem_acquired /\ sem_value = 1
    /\ sem_timeouts = 1 /\ sem_successes = 1
    /\ sem_error_counter = SEM_ERROR_INC - 1

\* C17: the fill overlaps the critical section of the peer only in a tick
\* whose acquire timed out.
C17_Exclusion ==
    (pc = "fill" /\ peer_pc = "cs") => wait_kind = "timeout"

C17_Witness ==
    /\ pc = "fill" /\ peer_pc = "cs" /\ wait_kind = "timeout"
    /\ fill_i = 1 /\ shm_elements = 2

\* C18: as long as every tick reached its wait before the timer expired, the
\* wait after the k-th fill returns at k intervals after the start of the
\* timer, whatever time start-up, acquires and fills took.
C18_FixedRate ==
    [][ (clock.on /\ random_interval_ms # 0 /\ ~clock.late
            /\ pc = "sleep" /\ pc' = "count")
          => clock.now = clock.timer_start + ticks * random_interval_ms
      ]_vars

C18_Witness ==
    /\ clock.on /\ ~clock.late /\ clock.timer_start > 0
    /\ pc = "count" /\ ticks = 3 /\ random_interval_ms = 3
    /\ clock.now = clock.timer_start + 9

\* C19: 0 <= counter <= limit; the counter stays 0 without a limit; it
\* changes only in handle_counter, by 1, and with a limit it equals the
\* number of completed ticks.
C19_Counter ==
    /\ [](/\ counter \in 0 .. interval_counter
          /\ (interval_counter # 0 /\ sigalrm_blocked /\ pc \in {"loop", "exit"})
                => counter = ticks)
    /\ [][ counter' # counter =>
              (counter' = counter + 1 /\ pc = "count" /\ interval_counter # 0)
      ]_vars

C19_Witness ==
    /\ CleanExit /\ ~terminate
    /\ interval_counter = 3 /\ counter = 3 /\ ticks = 3

\* C20 (as stated): with interval > 0 and limit N >= 2, when random_data of
\* the N-th tick returns no SIGALRM is pending, so that the exit needs a
\* timer expiration that follows the N-th fill.
C20_Original ==
    [][ (random_interval_ms > 0 /\ interval_counter >= 2
            /\ ticks = interval_counter /\ pc = "post" /\ pc' = "sleep")
          => ~alarm_pending'
      ]_vars

\* C20 (amended): with interval > 0 and limit N >= 2 every tick is followed
\* by the wait; the wait is left only by taking a pending SIGALRM (pending
\* already when the fill overran the interval) and leads to the limit check;
\* the exit at the limit comes from that check, and neither step starts a
\* fill.
C20_WaitBeforeExit ==
    [][ (random_interval_ms > 0 /\ interval_counter >= 2) =>
           /\ (pc = "post" /\ pc' # "post") => pc' = "sleep"
           /\ (pc = "sleep" /\ pc' # "sleep") =>
                 /\ alarm_pending /\ ~alarm_pending'
                 /\ pc' = "count" /\ ticks' = ticks /\ written' = written
           /\ (pc \in LoopStates /\ pc' = "exit" /\ ~terminate) =>
                 (pc = "count" /\ ticks' = ticks /\ ticks = interval_counter)
      ]_vars

C20_Witness ==
    /\ pc = "sleep" /\ ~alarm_pending /\ ~terminate
    /\ random_interval_ms > 0 /\ interval_counter >= 2
    /\ ticks = interval_counter /\ counter = interval_counter - 1

\* C21 (as stated): SIGALRM is blocked before the interval timer is started,
\* so that the timer never runs with SIGALRM unblocked and no expiration is
\* delivered to the process with the default action of SIGALRM.
C21_Original ==
    /\ timer_running => sigalrm_blocked
    /\ pc # "killed"

\* C22: when the computed element count is 0, main returns EX_DATAERR from
\* the element check: the shared memory is open at that point, and in the
\* state the process ends in the semaphore has not been opened or created,
\* the interval timer has not been started, SIGALRM has not been blocked and
\* nothing has been written.
C22_DataError ==
    /\ [][ (pc = "elements" /\ pc' # "elements" /\ shm_elements' = 0)
              => (shm_open /\ pc' = "exit" /\ exit_code' = EX_DATAERR)
         ]_vars
    /\ []( (pc = "exit" /\ exit_code = EX_DATAERR) =>
              /\ shm_elements = 0
              /\ shm_open
              /\ ~semaphore /\ ~sem_acquired
              /\ NoMaxTime(semaphore_max_time)
              /\ ~timer_running /\ ~sigalrm_blocked /\ ~alarm_pending
              /\ ticks = 0 /\ written = {} )

C22_Witness ==
    /\ pc = "exit" /\ exit_code = EX_DATAERR
    /\ shm_elements = 0 /\ shm_open
    /\ args.semaphore /\ args.create /\ random_interval_ms # 0
    /\ args.elements = 0

====
